---------------------------- MODULE Spec2Model ----------------------------
(***************************************************************************)
(* A model of the LDAP authentication client of golden-go                  *)
(* (pkg/utils/ldap/ldap.go): the Server object with its Connection field,  *)
(* and its methods Dial, Close, Login, Users, Bind and UserBind.           *)
(*                                                                         *)
(* Go strings are modelled as sequences of tokens (a token is a TLA+       *)
(* string standing for one or more characters), so that splitting,         *)
(* formatting, trimming and replacing are computed and not assumed.        *)
(* The directory server and the network are the environment: the result    *)
(* of every connect, bind and search is chosen nondeterministically.       *)
(***************************************************************************)
EXTENDS Integers, Sequences, FiniteSets, TLC

\* ------------------------------------------------------------- bounds

\* Entries the directory returns for one search.
MaxEntries == 2

\* Logins of the longest list handed to Users.
MaxLogins == 1200

\* ------------------------------------------------------------ strings

\* The empty Go string.
Empty == << >>

\* strings.Contains(s, tok) for a one-token needle.
Contains(s, tok) == \E i \in 1..Len(s) : s[i] = tok

RECURSIVE ReplaceAll(_, _, _)
\* strings.ReplaceAll(s, tok, r) for a one-token needle.
ReplaceAll(s, tok, r) ==
    IF s = << >> THEN << >>
    ELSE (IF Head(s) = tok THEN r ELSE <<Head(s)>>) \o ReplaceAll(Tail(s), tok, r)

RECURSIVE SplitFrom(_, _, _)
\* strings.Split: cur is the piece being read; every separator ends a piece,
\* and the end of the string ends the last one (which may be empty).
SplitFrom(s, sep, cur) ==
    IF s = << >> THEN <<cur>>
    ELSE IF Head(s) = sep THEN <<cur>> \o SplitFrom(Tail(s), sep, << >>)
    ELSE SplitFrom(Tail(s), sep, Append(cur, Head(s)))

\* strings.Split(s, sep): never an empty list.
Split(s, sep) == SplitFrom(s, sep, << >>)

\* strings.TrimPrefix(s, tok).
TrimPrefix(s, tok) == IF s # << >> /\ Head(s) = tok THEN Tail(s) ELSE s

\* strings.TrimSuffix(s, tok).
TrimSuffix(s, tok) ==
    IF s # << >> /\ s[Len(s)] = tok THEN SubSeq(s, 1, Len(s) - 1) ELSE s

RECURSIVE TrimLeft(_)
TrimLeft(s) == IF s # << >> /\ Head(s) = " " THEN TrimLeft(Tail(s)) ELSE s

RECURSIVE TrimRight(_)
TrimRight(s) ==
    IF s # << >> /\ s[Len(s)] = " " THEN TrimRight(SubSeq(s, 1, Len(s) - 1)) ELSE s

\* strings.TrimSpace(s): the white-space token is " ".
TrimSpace(s) == TrimRight(TrimLeft(s))

RECURSIVE SprintfFrom(_, _, _)
\* fmt.Sprintf(format, arg) with one string operand: the first %s verb takes
\* the operand, a later one has none left, and an operand no verb took is
\* reported at the end.
SprintfFrom(format, arg, used) ==
    IF format = << >>
    THEN (IF used THEN << >> ELSE <<"%!(EXTRA string=">> \o arg \o <<")">>)
    ELSE IF Head(format) = "%s"
    THEN (IF used THEN <<"%!s(MISSING)">> ELSE arg)
         \o SprintfFrom(Tail(format), arg, TRUE)
    ELSE <<Head(format)>> \o SprintfFrom(Tail(format), arg, used)

Sprintf1(format, arg) == SprintfFrom(format, arg, FALSE)

\* strings.ToLower on the attribute names of the model.
ToLower(name) ==
    CASE name = "DN" -> "dn"
      [] name = "Dn" -> "dn"
      [] name = "dN" -> "dn"
      [] OTHER -> name

\* ------------------------------------------------------------- errors

\* A Go error value: nil, one of the package's sentinel errors, an LDAP
\* result (*goldap.Error with its ResultCode) or any other error.
Nil == [kind |-> "nil", code |-> 0]

ErrInvalidCredentials == [kind |-> "ErrInvalidCredentials", code |-> 0]

ErrCouldNotFindUser == [kind |-> "ErrCouldNotFindUser", code |-> 0]

\* The LDAP result code of "invalid credentials".
LDAPResultInvalidCredentials == 49

LdapError(code) == [kind |-> "ldap", code |-> code]

\* An error that is no *goldap.Error (a net.OpError, an os.PathError, ...).
OtherError(what, n) == [kind |-> what, code |-> n]

\* What the library answers on a session that is closed (ErrorNetwork).
ConnClosedError == LdapError(200)

\* ------------------------------------------------------ configuration

\* AttributeMap values of the model.
AttrCnSn ==
    [Username |-> "uid", Name |-> "cn", Surname |-> "sn",
     Email |-> "mail", MemberOf |-> "memberOf"]

AttrDn ==
    [Username |-> "uid", Name |-> "DN", Surname |-> "",
     Email |-> "mail", MemberOf |-> ""]

AttrNone ==
    [Username |-> "uid", Name |-> "", Surname |-> "",
     Email |-> "", MemberOf |-> ""]

AttrMaps == {AttrCnSn, AttrDn, AttrNone}

\* bind_dn values: a plain DN, none, a template, a template with two verbs.
BindDNs ==
    { <<"cn=admin,dc=x">>,
      Empty,
      <<"uid=", "%s", ",dc=x">>,
      <<"uid=", "%s", ",ou=", "%s">> }

BindPasswords == {"", "adminpw"}

\* search_base_dns values: none, one, two.
BaseLists == { << >>, <<"ou=a">>, <<"ou=a", "ou=b">> }

\* host values: one host, two, three, a bracketed IPv6 host, an empty string,
\* a doubled separator.
HostStrings ==
    { <<"h1">>,
      <<"h1", " ", "h2">>,
      <<"h1", " ", "h2", " ", "h3">>,
      <<"[", "::1", "]">>,
      Empty,
      <<"h1", " ", " ", "h2">> }

RootCACerts == { Empty, <<"ca1.pem">>, <<"ca1.pem", " ", "ca2.pem">> }

\* One ServerConfig: the configuration every other one of the model varies.
BaseConfig ==
    [Host |-> <<"h1">>, UseSSL |-> FALSE, StartTLS |-> FALSE,
     RootCACert |-> Empty, ClientCert |-> "", ClientKey |-> "",
     BindDN |-> <<"cn=admin,dc=x">>, BindPassword |-> "adminpw",
     Attr |-> AttrCnSn,
     SearchFilter |-> <<"(", "uid=", "%s", ")">>,
     SearchBaseDNs |-> <<"ou=a">>,
     GroupSearchFilterUserAttribute |-> ""]

\* The configurations that vary what Login, Users and the binds read.
LoginConfigs ==
    { [BaseConfig EXCEPT !.BindDN = d, !.BindPassword = p,
                         !.Attr = m, !.SearchBaseDNs = b] :
        d \in BindDNs, p \in BindPasswords, m \in AttrMaps, b \in BaseLists }

\* client_cert and client_key values: none, both, the certificate alone.
KeyPairs == { <<"", "">>, <<"c.crt", "c.key">>, <<"c.crt", "">> }

\* The configurations that vary what Dial reads: the hosts and the way they
\* are connected to, and the certificate files.
DialConfigs ==
    { [BaseConfig EXCEPT !.Host = h, !.UseSSL = u, !.StartTLS = t] :
        h \in HostStrings, u \in BOOLEAN, t \in BOOLEAN }
    \cup
    { [BaseConfig EXCEPT !.UseSSL = u, !.RootCACert = ca,
                         !.ClientCert = ck[1], !.ClientKey = ck[2]] :
        u \in BOOLEAN, ca \in RootCACerts, ck \in KeyPairs }

\* ------------------------------------------------------------ entries

\* goldap.Entry values the directory holds: a DN and the attribute list.
EntryJaneDoe ==
    [DN |-> <<"uid=jane,dc=x">>,
     Attributes |-> << [Name |-> "cn", Values |-> << <<"Jane">> >>],
                       [Name |-> "sn", Values |-> << <<"Doe">> >>],
                       [Name |-> "mail", Values |-> << <<"jane@x.com">> >>] >>]

EntryJane ==
    [DN |-> <<"uid=j2,dc=x">>,
     Attributes |-> << [Name |-> "cn", Values |-> << >>],
                       [Name |-> "cn", Values |-> << <<"Jane">>, <<"J.">> >>] >>]

Entries == {EntryJaneDoe, EntryJane}

RECURSIVE SeqsUpTo(_, _)
\* The sequences over S of length at most n.
SeqsUpTo(S, n) ==
    IF n = 0 THEN { << >> }
    ELSE LET shorter == SeqsUpTo(S, n - 1)
         IN  shorter \cup { Append(q, x) : q \in shorter, x \in S }

\* What one search may return.
EntryLists == SeqsUpTo(Entries, MaxEntries)

\* The login names and passwords callers supply.
Names == { <<"bob">> }

Passwords == {"secret", "adminpw"}

\* The login lists given to Users.
LoginLists == { << >>, << <<"bob">> >>, << <<"bob">>, <<"eve">> >> }

\* Login number k of a long list.
UserLogin(k) == <<"u", ToString(k)>>

\* A list of n different logins.
ManyLogins(n) == [k \in 1..n |-> UserLogin(k)]

\* Logins that hold filter metacharacters: parentheses, an asterisk, a
\* backslash, NUL, a character outside ASCII, and a login written to close
\* the clause and open another.
MetaLogins ==
    { << <<"a", "(", "b">> >>,
      << <<"*">>, <<")", "(", "|", "(", "uid=", "*">>, <<"\\", "NUL", "U+00E9">> >> }

\* *models.User: nil, or the record buildGoldenUser makes.
NoUser == [Name |-> Empty, Email |-> Empty, AuthModule |-> "nil"]

\* --------------------------------------------- the program's functions

\* UsersMaxRequest: the most logins one search asks for.
UsersMaxRequest == 500

\* Server.shouldAdminBind.
shouldAdminBind(cfg) == cfg.BindPassword # ""

\* Server.shouldSingleBind.
shouldSingleBind(cfg) == Contains(cfg.BindDN, "%s")

\* Server.singleBindDN.
singleBindDN(cfg, username) == Sprintf1(cfg.BindDN, username)

\* A variant of the switch that tries the single-bind case first.
LoginStrategySingleFirst(cfg) ==
    IF shouldSingleBind(cfg) THEN "single"
    ELSE IF shouldAdminBind(cfg) THEN "admin"
    ELSE "anonymous"

\* The switch at the head of Login: its cases are tried in this order.
LoginStrategy(cfg) ==
    IF shouldAdminBind(cfg) THEN "admin"
    ELSE IF shouldSingleBind(cfg) THEN "single"
    ELSE "anonymous"

\* A variant of userBind that reports every failed bind as invalid credentials.
userBindAnyError(bindErr) ==
    IF bindErr = Nil THEN Nil ELSE ErrInvalidCredentials

\* Server.userBind: the error it returns for Connection.Bind's result.
userBind(bindErr) ==
    IF bindErr = Nil THEN Nil
    ELSE IF bindErr.kind = "ldap" /\ bindErr.code = LDAPResultInvalidCredentials
    THEN ErrInvalidCredentials
    ELSE bindErr

\* Server.UserBind and Server.AdminBind: userBind's error, logged, unchanged.
UserBind(bindErr) == userBind(bindErr)

AdminBind(bindErr) == userBind(bindErr)

\* The bind Login's strategy issues first: operation, identity, password.
StrategyBindKind(cfg) ==
    IF LoginStrategy(cfg) = "anonymous" THEN "UnauthenticatedBind" ELSE "Bind"

StrategyBindDN(cfg, name) ==
    IF LoginStrategy(cfg) = "single" THEN singleBindDN(cfg, name) ELSE cfg.BindDN

StrategyBindPassword(cfg, password) ==
    CASE LoginStrategy(cfg) = "admin" -> cfg.BindPassword
      [] LoginStrategy(cfg) = "single" -> password
      [] OTHER -> ""

\* A variant of Login that goes on after a failed strategy bind.
StrategyBindErrIgnored(cfg, bindErr) == Nil

\* The error Login sees from its strategy's bind.
StrategyBindErr(cfg, bindErr) ==
    CASE LoginStrategy(cfg) = "admin" -> AdminBind(bindErr)
      [] LoginStrategy(cfg) = "single" -> UserBind(bindErr)
      [] OTHER -> bindErr

\* authAndBind after the switch: set on the single-bind case only.
AuthAndBind(cfg) == LoginStrategy(cfg) = "single"

\* A variant of the test that always issues the final bind.
NeedsUserBindAlways(authAndBind) == TRUE

\* Login's test before the final UserBind: if !authAndBind.
NeedsUserBind(authAndBind) == ~authAndBind

\* A variant of the choice that takes the last user found.
FirstUserLast(users) == users[Len(users)]

\* Login's choice among the users found: users[0].
FirstUser(users) == users[1]

\* Login's test for "user not found": len(users) == 0.
NoUsersFound(users) == Len(users) = 0

RECURSIVE AttributeFrom(_, _)
\* getAttribute's loop: the first value of the first attribute of that name
\* that has a value.
AttributeFrom(name, attributes) ==
    IF attributes = << >> THEN Empty
    ELSE IF Head(attributes).Name = name /\ Len(Head(attributes).Values) > 0
    THEN Head(attributes).Values[1]
    ELSE AttributeFrom(name, Tail(attributes))

\* getAttribute.
getAttribute(name, entry) ==
    IF ToLower(name) = "dn" THEN entry.DN
    ELSE AttributeFrom(name, entry.Attributes)

\* A variant of the mapping that does not trim the name.
buildGoldenUserUntrimmed(cfg, entry) ==
    [AuthModule |-> "ldap",
     Name |-> getAttribute(cfg.Attr.Name, entry) \o <<" ">>
              \o getAttribute(cfg.Attr.Surname, entry),
     Email |-> getAttribute(cfg.Attr.Email, entry)]

\* Server.buildGoldenUser.
buildGoldenUser(cfg, entry) ==
    [AuthModule |-> "ldap",
     Name |-> TrimSpace(getAttribute(cfg.Attr.Name, entry) \o <<" ">>
                        \o getAttribute(cfg.Attr.Surname, entry)),
     Email |-> getAttribute(cfg.Attr.Email, entry)]

\* Server.serializeUsers.
serializeUsers(cfg, entries) ==
    [i \in 1..Len(entries) |-> buildGoldenUser(cfg, entries[i])]

\* A variant of the count that rounds down.
IterationsFloor(n) == n \div UsersMaxRequest

\* getUsersIteration: the number of iterations, ceil(n / UsersMaxRequest).
Iterations(n) ==
    IF n % UsersMaxRequest = 0 THEN n \div UsersMaxRequest
    ELSE n \div UsersMaxRequest + 1

\* getUsersIteration: the bounds handed to fn in iteration i (1-based).
BatchPrevious(i) == UsersMaxRequest * (i - 1)

BatchCurrent(i, n) ==
    IF i * UsersMaxRequest < n THEN i * UsersMaxRequest ELSE n

\* logins[previous:current].
BatchLogins(logins, i) ==
    SubSeq(logins, BatchPrevious(i) + 1, BatchCurrent(i, Len(logins)))

\* goldap.EscapeFilter on one character: the characters ( ) * \ and NUL and
\* every byte above 0x7f become a backslash and two hexadecimal digits
\* (one token of the model); U+00E9 is the two bytes c3 a9.
EscapeToken(tok) ==
    CASE tok = "(" -> <<"\\28">>
      [] tok = ")" -> <<"\\29">>
      [] tok = "*" -> <<"\\2a">>
      [] tok = "\\" -> <<"\\5c">>
      [] tok = "NUL" -> <<"\\00">>
      [] tok = "U+00E9" -> <<"\\c3", "\\a9">>
      [] OTHER -> <<tok>>

\* A variant of the escaping that leaves the login as it is.
EscapeFilterNone(s) == s

RECURSIVE EscapeFilter(_)
\* goldap.EscapeFilter(login).
EscapeFilter(s) ==
    IF s = << >> THEN << >> ELSE EscapeToken(Head(s)) \o EscapeFilter(Tail(s))

RECURSIVE appendIfNotEmpty(_, _)
\* appendIfNotEmpty(slice, values...).
appendIfNotEmpty(slice, values) ==
    IF values = << >> THEN slice
    ELSE appendIfNotEmpty(IF Head(values) # "" THEN Append(slice, Head(values)) ELSE slice,
                          Tail(values))

RECURSIVE SearchQueries(_, _)
\* getSearchRequest: search after the loop over the logins, each login's
\* query appended to it.
\* (The list is halved at every level: the concatenation is the loop's.)
SearchQueries(cfg, logins) ==
    IF logins = << >> THEN Empty
    ELSE IF Len(logins) = 1
    THEN ReplaceAll(cfg.SearchFilter, "%s", EscapeFilter(logins[1]))
    ELSE LET half == Len(logins) \div 2
         IN  SearchQueries(cfg, SubSeq(logins, 1, half))
             \o SearchQueries(cfg, SubSeq(logins, half + 1, Len(logins)))

\* Server.getSearchRequest.
getSearchRequest(cfg, base, logins) ==
    [BaseDN |-> base,
     Scope |-> "ScopeWholeSubtree",
     DerefAliases |-> "NeverDerefAliases",
     Attributes |-> appendIfNotEmpty(<< >>,
                        <<cfg.Attr.Username, cfg.Attr.Surname, cfg.Attr.Email,
                          cfg.Attr.Name, cfg.Attr.MemberOf,
                          cfg.GroupSearchFilterUserAttribute>>),
     Filter |-> Sprintf1(<<"(", "|", "%s", ")">>, SearchQueries(cfg, logins))]

\* A variant of the loop that stops at the first base without entries.
SearchLoopBreaksWhenEmpty(entries) == Len(entries) = 0

\* A variant of the loop that searches every base.
SearchLoopNeverBreaks(entries) == FALSE

\* users(): the loop over the search bases stops at the first base with entries.
SearchLoopBreaks(entries) == Len(entries) > 0

\* Dial: the hosts of the loop.
DialHosts(cfg) == Split(cfg.Host, " ")

\* Dial: the brackets of an IPv6 host are removed.
NormalizeHost(host) == TrimSuffix(TrimPrefix(host, "["), "]")

\* Dial: the way a host is connected to.
DialMode(cfg) ==
    IF cfg.UseSSL THEN (IF cfg.StartTLS THEN "starttls" ELSE "tls") ELSE "plain"

\* A variant of Dial that keeps the first error.
DialErrKeepsFirst(previous, new) == IF previous # Nil THEN previous ELSE new

\* Dial: err after an iteration assigned it.
DialErr(previous, new) == new

\* A variant of Dial that never leaves the loop early.
DialNeverReturns(err) == FALSE

\* Dial: the test that ends the loop with success, if err == nil.
DialReturns(err) == err = Nil

\* Dial: the files of the root CA list.
CAFiles(cfg) == IF cfg.RootCACert # Empty THEN Split(cfg.RootCACert, " ") ELSE << >>

\* Dial: whether a client key pair is loaded.
LoadsKeyPair(cfg) == cfg.ClientCert # "" /\ cfg.ClientKey # ""

\* -------------------------------------------------------------- state

\* The goroutines that call the client, and the Server objects they use.
Callers == {"c1", "c2"}

Servers == {"s1", "s2"}

\* A variant of the constructor that hands every caller the same Server.
NewLDAPServerShared(c) == "s1"

\* NewLDAPServer: every call makes a Server of its own, here the one made
\* for caller c.
NewLDAPServer(c) == IF c = "c1" THEN "s1" ELSE "s2"

\* server.Connection when it holds no session (the field's zero value, or
\* the nil *Conn a failed goldap.Dial stored in it).
NilConn == 0

VARIABLES
    Config,      \* the ServerConfig every Server was made with
    active,      \* the callers that run
    supplied,    \* the login lists the callers hand to Users
    serverOf,    \* the Server each caller uses
    Connection,  \* server.Connection of each Server: NilConn or a session
    sessions,    \* the sessions the state refers to, by session id
    pc,          \* where each caller is: "ready", or inside a call
    frame,       \* the locals of each caller's call (kept after it returned)
    log,         \* the directory operations of each caller's last call
    ret          \* what each caller's last call returned

vars == <<Config, active, supplied, serverOf, Connection, sessions, pc, frame, log, ret>>

\* The locals of a call.
IdleFrame ==
    [op |-> "none", name |-> Empty, password |-> "", logins |-> << >>,
     authAndBind |-> FALSE, batch |-> 0, base |-> 0, found |-> << >>,
     user |-> NoUser, hostIdx |-> 0, err |-> Nil, opened |-> {}]

\* A call's outcome: not returned yet, returned values, or a panic.
NoReturn ==
    [done |-> FALSE, panic |-> FALSE, user |-> NoUser, users |-> << >>, err |-> Nil]

Returns(user, users, err) ==
    [done |-> TRUE, panic |-> FALSE, user |-> user, users |-> users, err |-> err]

Panics ==
    [done |-> TRUE, panic |-> TRUE, user |-> NoUser, users |-> << >>, err |-> Nil]

\* One directory or network operation, as the log keeps it: the operation,
\* the place in the code that issued it, the session it was issued on, its
\* arguments (idx is the number of the host or of the batch) and its result.
LogEntry(kind, site, conn, idx, host, dn, pw, base, logins, filter, entries, res) ==
    [kind |-> kind, site |-> site, conn |-> conn, idx |-> idx, host |-> host,
     dn |-> dn, pw |-> pw, base |-> base, logins |-> logins, filter |-> filter,
     entries |-> entries, res |-> res]

LogBind(kind, site, conn, dn, pw, res) ==
    LogEntry(kind, site, conn, 0, Empty, dn, pw, "", << >>, Empty, << >>, res)

\* A search of batch number batch: the request's base and filter.
LogSearch(conn, batch, req, logins, entries, res) ==
    LogEntry("Search", "users", conn, batch, Empty, Empty, "", req.BaseDN, logins,
             req.Filter, entries, res)

\* A connect to host number i; conn is the session it opened, or NilConn.
LogConnect(kind, i, host, conn, res) ==
    LogEntry(kind, "Dial", conn, i, host, Empty, "", "", << >>, Empty, << >>, res)

LogStartTLS(conn, i, host, res) ==
    LogEntry("StartTLS", "Dial", conn, i, host, Empty, "", "", << >>, Empty, << >>, res)

LogClose(conn) ==
    LogEntry("Close", "Close", conn, 0, Empty, Empty, "", "", << >>, Empty, << >>, Nil)

\* ------------------------------------------------------ the environment

\* What the directory may answer to a bind.
BindResults == {Nil, LdapError(LDAPResultInvalidCredentials), LdapError(32),
                OtherError("io", 0)}

\* A bind on session conn: a closed session only fails.
BindOutcomes(conn) ==
    IF sessions[conn].open THEN BindResults ELSE {ConnClosedError}

\* A search on session conn: entries, or an error.
SearchOutcomes(conn) ==
    IF sessions[conn].open
    THEN { [err |-> Nil, entries |-> el] : el \in EntryLists }
         \cup { [err |-> e, entries |-> << >>] : e \in {LdapError(32), OtherError("io", 0)} }
    ELSE { [err |-> ConnClosedError, entries |-> << >>] }

\* Loading the certificates: all loaded (Nil), or the first failure.
CertOutcomes(cfg) ==
    {Nil}
    \cup { OtherError("readfile", j) : j \in 1..Len(CAFiles(cfg)) }
    \cup { OtherError("pem", j) : j \in 1..Len(CAFiles(cfg)) }
    \cup (IF LoadsKeyPair(cfg) THEN {OtherError("keypair", 0)} ELSE {})

\* A connect succeeds or fails; an in-band upgrade succeeds, is refused by
\* the server (the session stays open) or fails in the handshake (the
\* library closes the session).
ConnectResults == {"ok", "fail"}

StartTLSResults == {"ok", "refused", "handshake"}

\* ----------------------------------------------------------- sessions

\* The sessions a caller's locals and log refer to.
RefsOf(c) == frame[c].opened \cup {log[c][k].conn : k \in 1..Len(log[c])}

\* The sessions still referred to when caller c starts a new call: those a
\* Server holds and those another caller's call refers to.
Referenced(c) ==
    ({Connection[s] : s \in Servers} \cup UNION {RefsOf(d) : d \in Callers \ {c}})
    \cap DOMAIN sessions

\* The sessions kept when caller c starts a new call: one no Server and no
\* call refers to any more cannot be reached by the program and is forgotten.
Collect(c) == [id \in Referenced(c) |-> sessions[id]]

\* The id of the next session opened: the least one not in use.
NewSession ==
    CHOOSE id \in 1..(Cardinality(DOMAIN sessions) + 1) :
        /\ id \notin DOMAIN sessions
        /\ \A other \in 1..(id - 1) : other \in DOMAIN sessions

\* The sessions with session id opened.
Opened(id, sess) ==
    [k \in DOMAIN sessions \cup {id} |-> IF k = id THEN sess ELSE sessions[k]]

\* ------------------------------------------------------ control flow

\* Where a call goes next: the position, the locals, the outcome.
Step(pcv, f, r) == [pc |-> pcv, frame |-> f, ret |-> r]

\* Login, from the return of Users to its final bind or its return.
LoginAfterUsers(f, users) ==
    IF NoUsersFound(users)
    THEN Step("ready", f, Returns(NoUser, << >>, ErrCouldNotFindUser))
    ELSE LET user == FirstUser(users)
         IN  IF NeedsUserBind(f.authAndBind)
             THEN Step("verify", [f EXCEPT !.user = user], NoReturn)
             ELSE Step("ready", [f EXCEPT !.user = user], Returns(user, << >>, Nil))

\* Users, after getUsersIteration returned nil: the users it returns.
UsersResult(cfg, found) ==
    IF Len(found) = 0 THEN << >> ELSE serializeUsers(cfg, found)

\* The return of Users, to Login or to the caller.
AfterUsers(cfg, f, found) ==
    IF f.op = "Login"
    THEN LoginAfterUsers([f EXCEPT !.found = found], UsersResult(cfg, found))
    ELSE Step("ready", [f EXCEPT !.found = found],
              Returns(NoUser, UsersResult(cfg, found), Nil))

\* Iteration i of getUsersIteration, up to the first search of users(): with
\* no search base the loop of users() is skipped and result.Entries
\* dereferences the nil result.
EnterBatch(cfg, f, i, found) ==
    IF i > Iterations(Len(f.logins)) THEN AfterUsers(cfg, f, found)
    ELSE IF Len(cfg.SearchBaseDNs) = 0
    THEN Step("ready", [f EXCEPT !.batch = i, !.found = found], Panics)
    ELSE Step("search", [f EXCEPT !.batch = i, !.base = 1, !.found = found], NoReturn)

\* A variant of users() that goes on after a failed search.
AfterSearchIgnoresError(cfg, f, entries, err) ==
    IF SearchLoopBreaks(entries) \/ f.base = Len(cfg.SearchBaseDNs)
    THEN EnterBatch(cfg, f, f.batch + 1, f.found \o entries)
    ELSE Step("search", [f EXCEPT !.base = f.base + 1], NoReturn)

\* users(), after the search on base f.base answered.
AfterSearch(cfg, f, entries, err) ==
    IF err # Nil THEN Step("ready", f, Returns(NoUser, << >>, err))
    ELSE IF SearchLoopBreaks(entries) \/ f.base = Len(cfg.SearchBaseDNs)
    THEN EnterBatch(cfg, f, f.batch + 1, f.found \o entries)
    ELSE Step("search", [f EXCEPT !.base = f.base + 1], NoReturn)

\* The caller's variables after a step.
Goes(c, st, newLog) ==
    /\ pc' = [pc EXCEPT ![c] = st.pc]
    /\ frame' = [frame EXCEPT ![c] = st.frame]
    /\ ret' = [ret EXCEPT ![c] = st.ret]
    /\ log' = [log EXCEPT ![c] = newLog]

\* ------------------------------------------------------------ actions

\* A variant of Dial that drops the connection it holds before it loads
\* the certificates.
CallDialDropsConnection(c) ==
    /\ c \in active /\ pc[c] = "ready"
    /\ \E ce \in CertOutcomes(Config) :
          LET f == [IdleFrame EXCEPT !.op = "Dial", !.hostIdx = 1]
          IN  IF ce # Nil
              THEN Goes(c, Step("ready", f, Returns(NoUser, << >>, ce)), << >>)
              ELSE Goes(c, Step("dial", f, NoReturn), << >>)
    /\ sessions' = Collect(c)
    /\ Connection' = [Connection EXCEPT ![serverOf[c]] = NilConn]
    /\ UNCHANGED <<Config, active, supplied, serverOf>>

\* Dial, up to the host loop: the certificates are loaded, and a failure
\* returns before any host is contacted.
CallDial(c) ==
    /\ c \in active /\ pc[c] = "ready"
    /\ \E ce \in CertOutcomes(Config) :
          LET f == [IdleFrame EXCEPT !.op = "Dial", !.hostIdx = 1]
          IN  IF ce # Nil
              THEN Goes(c, Step("ready", f, Returns(NoUser, << >>, ce)), << >>)
              ELSE IF Len(DialHosts(Config)) = 0
              THEN Goes(c, Step("ready", f, Returns(NoUser, << >>, f.err)), << >>)
              ELSE Goes(c, Step("dial", f, NoReturn), << >>)
    /\ sessions' = Collect(c)
    /\ UNCHANGED <<Config, active, supplied, serverOf, Connection>>

\* Dial, one iteration of the host loop: connect to the host (and upgrade
\* the session when start-tls is configured), store the result in
\* server.Connection, return on success, else go on with the next host or
\* return the error.
DialHost(c) ==
    /\ c \in active /\ pc[c] = "dial"
    /\ \E r \in ConnectResults, t \in StartTLSResults :
          LET f == frame[c]
              i == f.hostIdx
              hosts == DialHosts(Config)
              host == NormalizeHost(hosts[i])
              mode == DialMode(Config)
              id == NewSession
              connected == r = "ok"
              upgrade == mode = "starttls" /\ connected
              connErr == IF connected THEN Nil ELSE OtherError("connect", i)
              tlsErr == CASE t = "ok" -> Nil
                          [] t = "refused" -> OtherError("starttls refused", i)
                          [] OTHER -> OtherError("tls handshake", i)
              err == DialErr(f.err, IF upgrade THEN tlsErr ELSE connErr)
              sess == [host |-> host, by |-> c,
                       open |-> ~(upgrade /\ t = "handshake"),
                       tls |-> (mode = "tls") \/ (upgrade /\ t = "ok")]
              connectLog == LogConnect(IF mode = "tls" THEN "DialTLS" ELSE "Dial",
                                       i, host, IF connected THEN id ELSE NilConn, connErr)
              newLog == log[c] \o <<connectLog>>
                        \o (IF upgrade THEN <<LogStartTLS(id, i, host, tlsErr)>> ELSE << >>)
              g == [f EXCEPT !.err = err,
                             !.opened = IF connected THEN @ \cup {id} ELSE @]
          IN  /\ (~upgrade => t = "ok")
              /\ Connection' = [Connection EXCEPT ![serverOf[c]] =
                                    IF connected THEN id ELSE NilConn]
              /\ sessions' = IF connected THEN Opened(id, sess) ELSE sessions
              /\ IF DialReturns(err)
                 THEN Goes(c, Step("ready", g, Returns(NoUser, << >>, Nil)), newLog)
                 ELSE IF i < Len(hosts)
                 THEN Goes(c, Step("dial", [g EXCEPT !.hostIdx = i + 1], NoReturn), newLog)
                 ELSE Goes(c, Step("ready", g, Returns(NoUser, << >>, err)), newLog)
    /\ UNCHANGED <<Config, active, supplied, serverOf>>

\* A variant of Close that leaves the session open.
CloseLeavesOpen(c) ==
    /\ c \in active /\ pc[c] = "ready"
    /\ LET conn == Connection[serverOf[c]]
           f == [IdleFrame EXCEPT !.op = "Close"]
       IN  IF conn = NilConn
           THEN /\ Goes(c, Step("ready", f, Panics), << >>)
                /\ sessions' = Collect(c)
           ELSE /\ Goes(c, Step("ready", f, Returns(NoUser, << >>, Nil)), <<LogClose(conn)>>)
                /\ sessions' = Collect(c)
    /\ UNCHANGED <<Config, active, supplied, serverOf, Connection>>

\* Close: server.Connection.Close(); a Server that holds no session panics.
Close(c) ==
    /\ c \in active /\ pc[c] = "ready"
    /\ LET conn == Connection[serverOf[c]]
           f == [IdleFrame EXCEPT !.op = "Close"]
       IN  IF conn = NilConn
           THEN /\ Goes(c, Step("ready", f, Panics), << >>)
                /\ sessions' = Collect(c)
           ELSE /\ Goes(c, Step("ready", f, Returns(NoUser, << >>, Nil)), <<LogClose(conn)>>)
                /\ sessions' = [Collect(c) EXCEPT ![conn].open = FALSE]
    /\ UNCHANGED <<Config, active, supplied, serverOf, Connection>>

\* Login, up to the return of its strategy's bind; on success Users is
\* entered, up to its first search.
CallLogin(c) ==
    /\ c \in active /\ pc[c] = "ready"
    /\ \E name \in Names, password \in Passwords :
          LET conn == Connection[serverOf[c]]
              f == [IdleFrame EXCEPT !.op = "Login", !.name = name,
                                     !.password = password, !.logins = <<name>>,
                                     !.authAndBind = AuthAndBind(Config)]
          IN  IF conn = NilConn
              THEN Goes(c, Step("ready", f, Panics), << >>)
              ELSE \E r \in BindOutcomes(conn) :
                      LET err == StrategyBindErr(Config, r)
                          bind == LogBind(StrategyBindKind(Config), LoginStrategy(Config),
                                          conn, StrategyBindDN(Config, name),
                                          StrategyBindPassword(Config, password), r)
                      IN  IF err # Nil
                          THEN Goes(c, Step("ready", f, Returns(NoUser, << >>, err)), <<bind>>)
                          ELSE Goes(c, EnterBatch(Config, f, 1, << >>), <<bind>>)
    /\ sessions' = Collect(c)
    /\ UNCHANGED <<Config, active, supplied, serverOf, Connection>>

\* Users called by the caller, up to its first search.
CallUsers(c) ==
    /\ c \in active /\ pc[c] = "ready"
    /\ \E logins \in supplied :
          Goes(c, EnterBatch(Config, [IdleFrame EXCEPT !.op = "Users", !.logins = logins],
                             1, << >>), << >>)
    /\ sessions' = Collect(c)
    /\ UNCHANGED <<Config, active, supplied, serverOf, Connection>>

\* users(), one search: the batch's logins on the next search base.
UsersSearch(c) ==
    /\ c \in active /\ pc[c] = "search"
    /\ LET conn == Connection[serverOf[c]]
           f == frame[c]
           base == Config.SearchBaseDNs[f.base]
           logins == BatchLogins(f.logins, f.batch)
           req == getSearchRequest(Config, base, logins)
       IN  IF conn = NilConn
           THEN Goes(c, Step("ready", f, Panics), log[c])
           ELSE \E res \in SearchOutcomes(conn) :
                   Goes(c, AfterSearch(Config, f, res.entries, res.err),
                        Append(log[c], LogSearch(conn, f.batch, req, logins,
                                                 res.entries, res.err)))
    /\ UNCHANGED <<Config, active, supplied, serverOf, Connection, sessions>>

\* Login, its final bind: UserBind(user.Name, query.Password).
LoginVerify(c) ==
    /\ c \in active /\ pc[c] = "verify"
    /\ LET conn == Connection[serverOf[c]]
           f == frame[c]
       IN  IF conn = NilConn
           THEN Goes(c, Step("ready", f, Panics), log[c])
           ELSE \E r \in BindOutcomes(conn) :
                   LET err == UserBind(r)
                       bind == LogBind("Bind", "verify", conn, f.user.Name, f.password, r)
                   IN  Goes(c, Step("ready", f,
                                    IF err # Nil THEN Returns(NoUser, << >>, err)
                                    ELSE Returns(f.user, << >>, Nil)),
                            Append(log[c], bind))
    /\ UNCHANGED <<Config, active, supplied, serverOf, Connection, sessions>>

\* UserBind called by the caller.
CallUserBind(c) ==
    /\ c \in active /\ pc[c] = "ready"
    /\ \E username \in {EntryJaneDoe.DN}, password \in Passwords :
          LET conn == Connection[serverOf[c]]
              f == [IdleFrame EXCEPT !.op = "UserBind", !.name = username,
                                     !.password = password]
          IN  IF conn = NilConn
              THEN Goes(c, Step("ready", f, Panics), << >>)
              ELSE \E r \in BindOutcomes(conn) :
                      Goes(c, Step("ready", f, Returns(NoUser, << >>, UserBind(r))),
                           <<LogBind("Bind", "UserBind", conn, username, password, r)>>)
    /\ sessions' = Collect(c)
    /\ UNCHANGED <<Config, active, supplied, serverOf, Connection>>

\* Bind called by the caller: the admin bind, or else the unauthenticated one.
CallBind(c) ==
    /\ c \in active /\ pc[c] = "ready"
    /\ LET conn == Connection[serverOf[c]]
           f == [IdleFrame EXCEPT !.op = "Bind"]
       IN  IF conn = NilConn
           THEN Goes(c, Step("ready", f, Panics), << >>)
           ELSE \E r \in BindOutcomes(conn) :
                   IF shouldAdminBind(Config)
                   THEN Goes(c, Step("ready", f, Returns(NoUser, << >>, AdminBind(r))),
                             <<LogBind("Bind", "Bind.admin", conn, Config.BindDN,
                                       Config.BindPassword, r)>>)
                   ELSE Goes(c, Step("ready", f, Returns(NoUser, << >>, r)),
                             <<LogBind("UnauthenticatedBind", "Bind.anonymous", conn,
                                       Config.BindDN, "", r)>>)
    /\ sessions' = Collect(c)
    /\ UNCHANGED <<Config, active, supplied, serverOf, Connection>>

\* ----------------------------------------------------- login attempts

\* A login attempt of the orchestrating caller: on a Server of its own it
\* dials, logs the user in on the dialed connection and closes it on every
\* exit path of Login (a return or a panic); an attempt whose Dial failed
\* has no connection and ends.
AttemptDial(c) == frame[c].op = "none" /\ CallDial(c)

AttemptLogin(c) ==
    /\ frame[c].op = "Dial" /\ ret[c].done /\ ret[c].err = Nil
    /\ CallLogin(c)

AttemptClose(c) ==
    /\ frame[c].op = "Login" /\ ret[c].done
    /\ Close(c)

\* ----------------------------------------------------- specifications

\* NewLDAPServer: every caller of callers has made a Server with the Config
\* and no Connection.
InitOf(configs, callers, lists) ==
    /\ Config \in configs
    /\ active = callers
    /\ supplied = lists
    /\ serverOf = [c \in Callers |-> NewLDAPServer(c)]
    /\ Connection = [s \in Servers |-> NilConn]
    /\ sessions = << >>
    /\ pc = [c \in Callers |-> "ready"]
    /\ frame = [c \in Callers |-> IdleFrame]
    /\ log = [c \in Callers |-> << >>]
    /\ ret = [c \in Callers |-> NoReturn]

\* One caller, short login lists.
InitWith(configs) == InitOf(configs, {"c1"}, LoginLists)

Init == InitWith(LoginConfigs)

\* The login lists of the batching specification: none, one, and lists
\* around UsersMaxRequest; and the long ones, of two and of three batches.
UsersLoginLists ==
    { ManyLogins(n) : n \in {0, 1, UsersMaxRequest - 1, UsersMaxRequest,
                              UsersMaxRequest + 1} }

LongLoginLists == { ManyLogins(n) : n \in {2 * UsersMaxRequest, MaxLogins} }

\* The configurations that vary what Users reads: the search bases.
UsersConfigs == { [BaseConfig EXCEPT !.SearchBaseDNs = b] : b \in BaseLists }

\* search_filter values: a clause with one %s, and a group with two.
SearchFilters ==
    { <<"(", "uid=", "%s", ")">>,
      <<"(", "|", "(", "uid=", "%s", ")", "(", "mail=", "%s", ")", ")">> }

\* The configurations that vary the filter of a search.
FilterConfigs == { [BaseConfig EXCEPT !.SearchFilter = t] : t \in SearchFilters }

\* Every list of search bases with the lists of up to two batches, one
\* search base with the long lists, and every search filter with the logins
\* that hold metacharacters.
InitUsers ==
    \/ InitOf(UsersConfigs, {"c1"}, UsersLoginLists)
    \/ InitOf({BaseConfig}, {"c1"}, LongLoginLists)
    \/ InitOf(FilterConfigs, {"c1"}, MetaLogins)

InitDial == InitWith(DialConfigs)

Next ==
    \E c \in Callers :
        \/ CallDial(c)
        \/ DialHost(c)
        \/ Close(c)
        \/ CallLogin(c)
        \/ CallUsers(c)
        \/ UsersSearch(c)
        \/ LoginVerify(c)
        \/ CallUserBind(c)
        \/ CallBind(c)

\* The calls of a client that dials, looks users up and logs users in.
NextUsers ==
    \E c \in Callers :
        \/ CallDial(c)
        \/ DialHost(c)
        \/ CallUsers(c)
        \/ CallLogin(c)
        \/ UsersSearch(c)
        \/ LoginVerify(c)

\* The configurations of the login attempts: without and with a search
\* base, and two hosts dialed with start-tls.
AttemptConfigs ==
    { [BaseConfig EXCEPT !.SearchBaseDNs = b] : b \in { << >>, <<"ou=a">> } }
    \cup { [BaseConfig EXCEPT !.Host = <<"h1", " ", "h2">>,
                              !.UseSSL = TRUE, !.StartTLS = TRUE] }

\* Two callers, one login attempt each.
InitAttempts == InitOf(AttemptConfigs, Callers, LoginLists)

\* The steps of the login attempts, interleaved in any order.
NextAttempts ==
    \E c \in Callers :
        \/ AttemptDial(c)
        \/ DialHost(c)
        \/ AttemptLogin(c)
        \/ UsersSearch(c)
        \/ LoginVerify(c)
        \/ AttemptClose(c)

\* One client, every login configuration.
Spec == Init /\ [][Next]_vars

\* One client, every dial configuration.
SpecDial == InitDial /\ [][Next]_vars

\* One client that looks up long login lists.
SpecUsers == InitUsers /\ [][NextUsers]_vars

\* Two concurrent login attempts.
SpecAttempts == InitAttempts /\ [][NextAttempts]_vars

\* ------------------------------------------------- reading the state

\* Caller c is in, or has returned from, a call of op.
InCall(c, op) == c \in active /\ frame[c].op = op

\* Caller c's call of op has returned (without a panic).
Returned(c, op) ==
    InCall(c, op) /\ pc[c] = "ready" /\ ret[c].done /\ ~ret[c].panic

\* Login returned a user.
Verified(c) ==
    Returned(c, "Login") /\ ret[c].err = Nil /\ ret[c].user # NoUser

\* The positions of the log with a bind that carries the password the
\* caller supplied to Login: the single bind and the final bind pass
\* query.Password.
SuppliedBinds(c) ==
    { k \in 1..Len(log[c]) :
        /\ log[c][k].kind = "Bind"
        /\ log[c][k].site \in {"single", "verify"}
        /\ log[c][k].pw = frame[c].password }

\* The positions of the log with a bind of any kind, and with a search.
BindsOf(c) ==
    { k \in 1..Len(log[c]) : log[c][k].kind \in {"Bind", "UnauthenticatedBind"} }

SearchesOf(c) == { k \in 1..Len(log[c]) : log[c][k].kind = "Search" }

\* The last entry of caller c's log.
LastOp(c) == log[c][Len(log[c])]

\* Login's search ended with no entry: the last base was searched and
\* returned nothing.
SearchFoundNothing(c) ==
    /\ InCall(c, "Login") /\ Len(log[c]) > 0
    /\ LastOp(c).kind = "Search" /\ LastOp(c).res = Nil
    /\ LastOp(c).entries = << >>
    /\ LastOp(c).base = Config.SearchBaseDNs[Len(Config.SearchBaseDNs)]
    /\ Cardinality(SearchesOf(c)) = Len(Config.SearchBaseDNs)

\* Login's final bind was answered with "invalid credentials".
WrongPassword(c) ==
    /\ InCall(c, "Login") /\ Len(log[c]) > 0
    /\ LastOp(c).site = "verify"
    /\ LastOp(c).res = LdapError(LDAPResultInvalidCredentials)

\* ------------------------------------------------------------- claims

\* C1: Login returns a user only if a bind carrying the password the caller
\* supplied succeeded in that call, and no call of Login presents the
\* supplied password in more than one bind (exactly one when it returns a
\* user).
C1_CredentialVerifiedOnce ==
    \A c \in Callers :
        InCall(c, "Login") =>
            /\ Cardinality(SuppliedBinds(c)) <= 1
            /\ \A k \in 1..Len(log[c]) :
                  (log[c][k].kind = "Bind" /\ log[c][k].site \in {"single", "verify"})
                      => k \in SuppliedBinds(c)
            /\ Verified(c) =>
                  /\ Cardinality(SuppliedBinds(c)) = 1
                  /\ \E k \in SuppliedBinds(c) : log[c][k].res = Nil

\* C1, its cases: a Login that returned a user after an admin bind, a
\* search and the final bind.
C1_Witness ==
    /\ Verified("c1")
    /\ LoginStrategy(Config) = "admin"
    /\ Len(log["c1"]) >= 3

\* C2 (as claimed): Login rejects a wrong password and an unknown login name
\* with the same error.
C2_SameRejection ==
    \A c \in Callers :
        (Returned(c, "Login") /\ (WrongPassword(c) \/ SearchFoundNothing(c)))
            => ret[c].err = ErrInvalidCredentials

\* C3: a bind the directory rejects with result code 49 is reported as
\* ErrInvalidCredentials, a bind that fails otherwise returns the error
\* unchanged, and a bind that succeeds returns no error: for UserBind, for
\* the admin bind of Bind and for the binds of Login that end the call.
C3_BindErrorMapping ==
    \A c \in Callers :
        (/\ c \in active /\ pc[c] = "ready" /\ ret[c].done /\ ~ret[c].panic
         /\ frame[c].op \in {"UserBind", "Bind", "Login"}
         /\ Len(log[c]) > 0 /\ LastOp(c).kind = "Bind")
        => LET r == LastOp(c).res
           IN  /\ (r = Nil => ret[c].err = Nil)
               /\ (r = [kind |-> "ldap", code |-> 49]
                      => ret[c].err = ErrInvalidCredentials)
               /\ ((r # Nil /\ r # [kind |-> "ldap", code |-> 49])
                      => ret[c].err = r)

\* C3, its cases: UserBind answered with result code 49.
C3_Witness ==
    /\ Returned("c1", "UserBind")
    /\ Len(log["c1"]) = 1
    /\ log["c1"][1].res = [kind |-> "ldap", code |-> 49]
    /\ ret["c1"].err = ErrInvalidCredentials

\* C4 (as claimed): with a templated bind DN and no bind password, a Login
\* that succeeds issues exactly one bind, before the search, as the bind DN
\* with the placeholder replaced by the login name and with the supplied
\* password, and no bind after the search.
C4_SingleBindOnce ==
    \A c \in Callers :
        (Verified(c) /\ Contains(Config.BindDN, "%s") /\ Config.BindPassword = "")
        => /\ BindsOf(c) = {1}
           /\ log[c][1].kind = "Bind"
           /\ log[c][1].dn = ReplaceAll(Config.BindDN, "%s", frame[c].name)
           /\ log[c][1].pw = frame[c].password
           /\ \A k \in 2..Len(log[c]) : log[c][k].kind = "Search"

\* C5 (as claimed): with a bind password configured, a Login that succeeds
\* issues the admin bind, one search for the name and one bind with the
\* supplied password, and nothing else.
C5_AdminOneSearch ==
    \A c \in Callers :
        (Verified(c) /\ Config.BindPassword # "")
        => /\ Len(log[c]) = 3
           /\ log[c][1].kind = "Bind" /\ log[c][1].dn = Config.BindDN
           /\ log[c][1].pw = Config.BindPassword
           /\ log[c][2].kind = "Search" /\ log[c][2].logins = <<frame[c].name>>
           /\ log[c][3].kind = "Bind" /\ log[c][3].pw = frame[c].password

\* C5 (amended): with a bind password configured, a Login that succeeds
\* issues, in this order and with nothing else in between, the admin bind
\* with the configured DN and password, one search for the name on each
\* configured search base in the listed order up to and including the first
\* base that returns an entry (every earlier one returned none), and then
\* exactly one bind with the supplied password.
C5_AdminSequence ==
    \A c \in Callers :
        (Verified(c) /\ Config.BindPassword # "")
        => LET n == Len(log[c])
           IN  /\ n >= 3
               /\ log[c][1].kind = "Bind" /\ log[c][1].dn = Config.BindDN
               /\ log[c][1].pw = Config.BindPassword /\ log[c][1].res = Nil
               /\ \A k \in 2..(n - 1) :
                     /\ log[c][k].kind = "Search"
                     /\ log[c][k].logins = <<frame[c].name>>
                     /\ k - 1 <= Len(Config.SearchBaseDNs)
                     /\ log[c][k].base = Config.SearchBaseDNs[k - 1]
                     /\ log[c][k].res = Nil
                     /\ (log[c][k].entries # << >>) <=> (k = n - 1)
               /\ log[c][n].kind = "Bind" /\ log[c][n].pw = frame[c].password
               /\ log[c][n].res = Nil
               /\ SuppliedBinds(c) = {n}

\* C5, its cases: the first base returned nothing, the second an entry.
C5_Witness ==
    /\ Verified("c1") /\ Config.BindPassword # ""
    /\ Len(log["c1"]) = 4
    /\ log["c1"][2].entries = << >>
    /\ log["c1"][3].entries # << >>

\* C6 (as claimed): the identity of Login's final bind is the distinguished
\* name of the first entry the search returned.
C6_VerifyBindsEntryDN ==
    \A c \in Callers :
        InCall(c, "Login") =>
            \A k \in 1..Len(log[c]) :
                log[c][k].site = "verify" => log[c][k].dn = frame[c].found[1].DN

\* The greatest element of a set of numbers.
MaxOf(S) == CHOOSE x \in S : \A y \in S : y <= x

\* The entries Login's search returned: those of its last search.
LoginEntries(c) == log[c][MaxOf(SearchesOf(c))].entries

C8_StrategySelection ==
    \A c \in Callers :
        (InCall(c, "Login") /\ Len(log[c]) > 0) =>
            LET first == log[c][1]
                templated == \E i \in 1..Len(Config.BindDN) : Config.BindDN[i] = "%s"
            IN  /\ { k \in 1..Len(log[c]) :
                       log[c][k].site \in {"admin", "single", "anonymous"} } = {1}
                /\ (Config.BindPassword # "") <=> (first.site = "admin")
                /\ (Config.BindPassword = "" /\ templated) <=> (first.site = "single")
                /\ (Config.BindPassword = "" /\ ~templated) <=> (first.site = "anonymous")
                /\ first.site = "admin" =>
                      /\ first.kind = "Bind" /\ first.dn = Config.BindDN
                      /\ first.pw = Config.BindPassword /\ ~frame[c].authAndBind
                /\ first.site = "single" =>
                      /\ first.kind = "Bind" /\ first.pw = frame[c].password
                      /\ frame[c].authAndBind
                /\ first.site = "anonymous" =>
                      /\ first.kind = "UnauthenticatedBind" /\ first.dn = Config.BindDN
                      /\ first.pw = "" /\ ~frame[c].authAndBind

\* C8, its cases: a templated bind DN with a bind password selects the
\* admin bind.
C8_Witness ==
    /\ InCall("c1", "Login") /\ Len(log["c1"]) > 0
    /\ Contains(Config.BindDN, "%s") /\ Config.BindPassword # ""
    /\ log["c1"][1].site = "admin"
    /\ log["c1"][1].dn = Config.BindDN

\* The connects of caller c's Dial, in the order they were made.
IsConnect(e) == e.kind \in {"Dial", "DialTLS"}

ConnectsOf(c) == SelectSeq(log[c], IsConnect)

\* The error host number i ended with in caller c's Dial: that of the
\* last step made on it (the connect, or the upgrade after it).
HostErr(c, i) ==
    log[c][MaxOf({ k \in 1..Len(log[c]) : log[c][k].idx = i })].res

\* C9: Dial contacts the configured hosts in their listed order, one at a
\* time, contacts no host after one on which every step succeeded, and
\* returns success at that host holding its session.
C9_HostFailover ==
    \A c \in Callers :
        InCall(c, "Dial") =>
            LET hosts == Split(Config.Host, " ")
                connects == ConnectsOf(c)
                n == Len(connects)
            IN  /\ n <= Len(hosts)
                /\ \A k \in 1..n :
                      /\ connects[k].idx = k
                      /\ connects[k].host = TrimSuffix(TrimPrefix(hosts[k], "["), "]")
                /\ \A k \in 1..(n - 1) : HostErr(c, k) # Nil
                /\ (n > 0 /\ HostErr(c, n) = Nil) =>
                      /\ Returned(c, "Dial") /\ ret[c].err = Nil
                      /\ Connection[serverOf[c]] = connects[n].conn
                      /\ connects[n].conn # NilConn
                /\ (pc[c] = "dial") => (frame[c].hostIdx = n + 1)

\* C9, its cases: three hosts, the first unreachable, the second reachable.
C9_Witness ==
    /\ Returned("c1", "Dial") /\ ret["c1"].err = Nil
    /\ Config.Host = <<"h1", " ", "h2", " ", "h3">>
    /\ Len(ConnectsOf("c1")) = 2
    /\ HostErr("c1", 1) # Nil
    /\ ConnectsOf("c1")[2].host = <<"h2">>
    /\ Connection["s1"] = ConnectsOf("c1")[2].conn

\* C10: when every host fails, Dial returns the error of the last host of
\* the list; and Dial returns success only if a host succeeded.
C10_LastHostError ==
    \A c \in Callers :
        Returned(c, "Dial") =>
            LET n == Len(ConnectsOf(c))
            IN  /\ (ret[c].err = Nil) => (n > 0 /\ HostErr(c, n) = Nil)
                /\ (n > 0 /\ \A k \in 1..n : HostErr(c, k) # Nil) =>
                      /\ n = Len(Split(Config.Host, " "))
                      /\ ret[c].err = HostErr(c, n)
                      /\ ret[c].err # Nil

\* C10, its cases: two hosts, both unreachable.
C10_Witness ==
    /\ Returned("c1", "Dial")
    /\ Len(Split(Config.Host, " ")) = 2
    /\ Len(ConnectsOf("c1")) = 2
    /\ HostErr("c1", 1) # Nil
    /\ ret["c1"].err = HostErr("c1", 2)
    /\ ret["c1"].err # HostErr("c1", 1)

\* The first and one past the last index (0-based) of batch i of n logins.
RangeFrom(i) == 500 * (i - 1)

RangeTo(i, n) == IF 500 * i < n THEN 500 * i ELSE n

\* The batches caller c's Users has issued: those of its searches.
BatchesOf(c) == { log[c][k].idx : k \in 1..Len(log[c]) }

\* C11: Users issues its batches in increasing order, none skipped; batch i
\* of N logins holds the logins of the index range [500(i-1), min(500i, N)),
\* which is not empty and holds at most 500 logins; and a Users that ran to
\* its end issued ceil(N/500) batches, which cover every login exactly once.
\* (Every search is the last entry of the log in the state it is issued in.)
C11_Batching ==
    \A c \in Callers :
        InCall(c, "Users") =>
            LET logins == frame[c].logins
                n == Len(logins)
            IN  /\ \A k \in {Len(log[c])} \ {0} :
                      LET i == log[c][k].idx
                          size == RangeTo(i, n) - RangeFrom(i)
                      IN  /\ log[c][k].kind = "Search"
                          /\ i >= 1
                          /\ size > 0 /\ size <= 500
                          /\ log[c][k].logins =
                                 [j \in 1..size |-> logins[RangeFrom(i) + j]]
                          /\ IF k = 1 THEN i = 1
                             ELSE i \in {log[c][k - 1].idx, log[c][k - 1].idx + 1}
                /\ (Returned(c, "Users") /\ ret[c].err = Nil) =>
                      \E b \in 0..n :
                          /\ 500 * b >= n
                          /\ (b > 0 => 500 * (b - 1) < n)
                          /\ BatchesOf(c) = 1..b
                          /\ \A j \in 1..n :
                                Cardinality({ i \in 1..b :
                                    RangeFrom(i) < j /\ j <= RangeTo(i, n) }) = 1

\* C11, its cases: the longest list ran to its end in three batches, the
\* last one shorter than the others.
C11_Witness ==
    /\ Returned("c1", "Users") /\ ret["c1"].err = Nil
    /\ Len(frame["c1"].logins) = MaxLogins
    /\ BatchesOf("c1") = {1, 2, 3}
    /\ Len(log["c1"][1].logins) = 500
    /\ Len(LastOp("c1").logins) = MaxLogins - 1000

\* C12: a search that fails is the last operation of Users (and of Login's
\* search): the call returns that error and no user, whatever the searches
\* before it returned.
C12_SearchFailureAborts ==
    \A c \in Callers :
        (InCall(c, "Users") \/ InCall(c, "Login")) =>
            \A k \in 1..Len(log[c]) :
                (log[c][k].kind = "Search" /\ log[c][k].res # Nil) =>
                    /\ k = Len(log[c])
                    /\ pc[c] = "ready" /\ ret[c].done /\ ~ret[c].panic
                    /\ ret[c].err = log[c][k].res
                    /\ ret[c].users = << >>
                    /\ ret[c].user = NoUser

\* C12, its cases: the first batch returned entries, the second one failed.
C12_Witness ==
    /\ Returned("c1", "Users")
    /\ Len(log["c1"]) >= 2
    /\ log["c1"][1].idx = 1 /\ log["c1"][1].entries # << >>
    /\ LastOp("c1").idx = 2 /\ LastOp("c1").res # Nil
    /\ ret["c1"].err = LastOp("c1").res
    /\ ret["c1"].users = << >>

\* Caller c's Users has ended (by a return or a panic) on a Server that
\* holds a session, and none of its searches failed or returned an entry.
UsersFoundNothing(c) ==
    /\ InCall(c, "Users") /\ pc[c] = "ready" /\ ret[c].done
    /\ Connection[serverOf[c]] # NilConn
    /\ \A k \in 1..Len(log[c]) : log[c][k].res = Nil /\ log[c][k].entries = << >>

\* C13 (as claimed): whatever the list of search bases, also the empty one,
\* a Users in which no base yields an entry returns an empty list of users
\* and no error.
C13_EmptyIsNoError ==
    \A c \in Callers :
        UsersFoundNothing(c) =>
            /\ ~ret[c].panic
            /\ ret[c].err = Nil
            /\ ret[c].users = << >>

RECURSIVE EntriesOf(_)
\* The entries of the searches of a log, in the order of the log.
EntriesOf(l) == IF l = << >> THEN << >> ELSE Head(l).entries \o EntriesOf(Tail(l))

\* The positions of caller c's log with a search of batch i.
SearchesOfBatch(c, i) == { k \in SearchesOf(c) : log[c][k].idx = i }

\* C14: in every batch the search bases are searched in the listed order,
\* from the first one on; a base is searched only if every base before it
\* returned no entry; and the entries of a call that ran to its end are, batch
\* after batch, those of the first base that returned any.
C14_BaseOrder ==
    \A c \in Callers :
        (InCall(c, "Users") \/ InCall(c, "Login")) =>
            /\ \A k \in SearchesOf(c) :
                  LET before == { j \in SearchesOfBatch(c, log[c][k].idx) : j < k }
                      nth == Cardinality(before) + 1
                  IN  /\ nth <= Len(Config.SearchBaseDNs)
                      /\ log[c][k].base = Config.SearchBaseDNs[nth]
                      /\ \A j \in before :
                            log[c][j].res = Nil /\ log[c][j].entries = << >>
                      /\ \A j \in SearchesOfBatch(c, log[c][k].idx) :
                            j < k => \A m \in j..k : m \in SearchesOfBatch(c, log[c][k].idx)
            /\ (Returned(c, "Users") /\ ret[c].err = Nil) =>
                  /\ frame[c].found = EntriesOf(log[c])
                  /\ Len(ret[c].users) = Len(EntriesOf(log[c]))

\* C14, its cases: two batches and two bases; in the first batch the first
\* base returned nothing and the second one an entry, and the second batch
\* started again at the first base.
C14_Witness ==
    /\ Returned("c1", "Users") /\ ret["c1"].err = Nil
    /\ Config.SearchBaseDNs = <<"ou=a", "ou=b">>
    /\ Len(log["c1"]) = 3
    /\ log["c1"][1].idx = 1 /\ log["c1"][1].base = "ou=a" /\ log["c1"][1].entries = << >>
    /\ log["c1"][2].idx = 1 /\ log["c1"][2].base = "ou=b" /\ log["c1"][2].entries # << >>
    /\ log["c1"][3].idx = 2 /\ log["c1"][3].base = "ou=a" /\ log["c1"][3].entries # << >>
    /\ frame["c1"].found = log["c1"][2].entries \o log["c1"][3].entries

\* The first value an entry has under an attribute name, none if it has no
\* value under it; the name dn, in any letter case, is the entry's DN.
FirstValue(entry, attr) ==
    IF attr \in {"dn", "DN", "Dn", "dN"} THEN entry.DN
    ELSE LET valued == { j \in 1..Len(entry.Attributes) :
                            /\ entry.Attributes[j].Name = attr
                            /\ entry.Attributes[j].Values # << >> }
         IN  IF valued = {} THEN Empty
             ELSE entry.Attributes[CHOOSE j \in valued : \A m \in valued : j <= m].Values[1]

\* A name, a space and a surname, without the space when either is missing.
DisplayName(name, surname) ==
    IF surname = Empty THEN name
    ELSE IF name = Empty THEN surname
    ELSE name \o <<" ">> \o surname

\* User u is what the entry maps to under the configured attribute map.
MappedAs(u, entry) ==
    /\ u.Name = DisplayName(FirstValue(entry, Config.Attr.Name),
                            FirstValue(entry, Config.Attr.Surname))
    /\ u.Email = FirstValue(entry, Config.Attr.Email)
    /\ (Config.Attr.Name = "cn" /\ Config.Attr.Surname = "sn" /\ entry = EntryJaneDoe)
          => u.Name = <<"Jane", " ", "Doe">> /\ u.Email = <<"jane@x.com">>
    /\ (Config.Attr.Name = "cn" /\ Config.Attr.Surname = "sn" /\ entry = EntryJane)
          => u.Name = <<"Jane">> /\ u.Email = Empty
    /\ (Config.Attr.Name = "DN" /\ Config.Attr.Surname = "") => u.Name = entry.DN

\* C15: every user Users returns, and the user Login returns, is mapped from
\* its entry: the name is the first value of the name attribute, a space and
\* the first value of the surname attribute, trimmed (a missing attribute
\* gives nothing), the email is the first value of the email attribute, and
\* the attribute name dn stands for the entry's DN.
C15_EntryMapping ==
    \A c \in Callers :
        /\ (Returned(c, "Users") /\ ret[c].err = Nil) =>
              /\ Len(ret[c].users) = Len(frame[c].found)
              /\ \A i \in 1..Len(ret[c].users) :
                    MappedAs(ret[c].users[i], frame[c].found[i])
        /\ Verified(c) => MappedAs(ret[c].user, frame[c].found[1])

\* C15, its cases: Users returned an entry with a name and a surname and an
\* entry without a surname, under the attribute map cn, sn.
C15_Witness ==
    /\ Returned("c1", "Users") /\ ret["c1"].err = Nil
    /\ Config.Attr = AttrCnSn
    /\ frame["c1"].found = <<EntryJaneDoe, EntryJane>>
    /\ ret["c1"].users[1].Name = <<"Jane", " ", "Doe">>
    /\ ret["c1"].users[2].Name = <<"Jane">>

RECURSIVE Flatten(_)
\* The concatenation of a sequence of sequences.
Flatten(ss) ==
    IF ss = << >> THEN << >>
    ELSE IF Len(ss) = 1 THEN ss[1]
    ELSE LET half == Len(ss) \div 2
         IN  Flatten(SubSeq(ss, 1, half)) \o Flatten(SubSeq(ss, half + 1, Len(ss)))

\* The filter metacharacters and the way RFC 4515 writes them.
HexOf ==
    [t \in {"(", ")", "*", "\\", "NUL"} |->
        CASE t = "(" -> "\\28" [] t = ")" -> "\\29" [] t = "*" -> "\\2a"
          [] t = "\\" -> "\\5c" [] OTHER -> "\\00"]

\* A login with its metacharacters (and its bytes outside ASCII) escaped.
Escaped(login) ==
    Flatten([i \in 1..Len(login) |->
                IF login[i] \in DOMAIN HexOf THEN <<HexOf[login[i]]>>
                ELSE IF login[i] = "U+00E9" THEN <<"\\c3", "\\a9">>
                ELSE <<login[i]>>])

\* The per-user filter template with every %s replaced by the escaped login.
ClauseOf(login) ==
    Flatten([i \in 1..Len(Config.SearchFilter) |->
                IF Config.SearchFilter[i] = "%s" THEN Escaped(login)
                ELSE <<Config.SearchFilter[i]>>])

\* How often a token occurs in a string, and the nesting depth after
\* position p of a filter.
Count(str, tok) == Cardinality({ p \in 1..Len(str) : str[p] = tok })

Depth(filter, p) ==
    Cardinality({ q \in 1..p : filter[q] = "(" })
    - Cardinality({ q \in 1..p : filter[q] = ")" })

\* The clauses of the group a filter opens with: the parentheses that open
\* directly inside it.
TopClauses(filter) ==
    Cardinality({ p \in 2..Len(filter) : filter[p] = "(" /\ Depth(filter, p - 1) = 1 })

\* C16: the filter of every search is "(|", the clause of every login of the
\* batch in the order of the logins, and ")"; the only parentheses and
\* asterisks in it are the template's, it holds no backslash of its own and
\* no NUL; and (checked on the short batches) the group it opens is closed
\* by its last character and holds as many clauses as the batch has logins.
\* (Every search is the last entry of the log in the state it is issued in.)
C16_FilterEscaped ==
    \A c \in Callers :
        (Len(log[c]) > 0 /\ LastOp(c).kind = "Search") =>
            LET logins == LastOp(c).logins
                filter == LastOp(c).filter
                n == Len(logins)
            IN  /\ filter = <<"(", "|">>
                            \o Flatten([i \in 1..n |-> ClauseOf(logins[i])])
                            \o <<")">>
                /\ Count(filter, "(") = 1 + n * Count(Config.SearchFilter, "(")
                /\ Count(filter, ")") = 1 + n * Count(Config.SearchFilter, ")")
                /\ Count(filter, "*") = n * Count(Config.SearchFilter, "*")
                /\ Count(filter, "\\") = 0
                /\ Count(filter, "NUL") = 0
                /\ n <= 3 =>
                      /\ TopClauses(filter) = n
                      /\ \A p \in 1..(Len(filter) - 1) : Depth(filter, p) >= 1
                      /\ Depth(filter, Len(filter)) = 0

\* C16, its cases: a batch of three logins that hold every metacharacter,
\* one of them written to close its clause and open another, under the
\* template with two %s.
C16_Witness ==
    /\ InCall("c1", "Users") /\ Len(log["c1"]) > 0
    /\ Len(LastOp("c1").logins) = 3
    /\ LastOp("c1").logins[2] = <<")", "(", "|", "(", "uid=", "*">>
    /\ Count(Config.SearchFilter, "%s") = 2
    /\ Count(LastOp("c1").filter, "\\29") = 2
    /\ Count(LastOp("c1").filter, "\\5c") = 2
    /\ TopClauses(LastOp("c1").filter) = 3

\* Caller c's login attempt is over: its Close has returned.
AttemptEnded(c) == c \in active /\ frame[c].op = "Close" /\ ret[c].done

OwnConnectionUsed(c) ==
    \A k \in 1..Len(log[c]) :
        log[c][k].kind \in {"Bind", "UnauthenticatedBind", "Search"} =>
            /\ log[c][k].conn \in DOMAIN sessions
            /\ sessions[log[c][k].conn].by = c

\* A step that is not caller c's leaves the connection of c's Server as it
\* is: the same session, in the same state.
ConnectionUntouched(c) ==
    (pc'[c] = pc[c] /\ frame'[c] = frame[c] /\ log'[c] = log[c] /\ ret'[c] = ret[c]) =>
        LET conn == Connection[serverOf[c]]
        IN  /\ Connection'[serverOf[c]] = conn
            /\ conn # NilConn =>
                  conn \in DOMAIN sessions' /\ sessions'[conn] = sessions[conn]

StepError(err, res) ==
    /\ err # Nil
    /\ \/ err = res
       \/ res = [kind |-> "ldap", code |-> 49] /\ err = ErrInvalidCredentials

\* C19: in a Login call the strategy bind comes first; a search is issued
\* only after the strategy bind succeeded; the final bind is issued only
\* right after a search that succeeded with an entry, and is the last
\* operation; and a step that fails is the last operation of the call, which
\* returns that step's error and no user.
C19_StepOrder ==
    \A c \in Callers :
        InCall(c, "Login") =>
            \A k \in 1..Len(log[c]) :
                /\ (k = 1) <=> (log[c][k].site \in {"admin", "single", "anonymous"})
                /\ k > 1 => log[c][k].kind = "Search" \/ log[c][k].site = "verify"
                /\ log[c][k].kind = "Search" =>
                      /\ log[c][1].res = Nil
                      /\ \A j \in 2..(k - 1) : log[c][j].kind = "Search"
                /\ log[c][k].site = "verify" =>
                      /\ k = Len(log[c]) /\ k >= 3
                      /\ log[c][k - 1].kind = "Search"
                      /\ log[c][k - 1].res = Nil
                      /\ log[c][k - 1].entries # << >>
                /\ log[c][k].res # Nil =>
                      /\ k = Len(log[c])
                      /\ Returned(c, "Login")
                      /\ StepError(ret[c].err, log[c][k].res)
                      /\ ret[c].user = NoUser

\* C19, its cases: the strategy bind and the search succeeded and the final
\* bind failed with an error that is not "invalid credentials".
C19_Witness ==
    /\ Returned("c1", "Login")
    /\ Len(log["c1"]) = 3
    /\ log["c1"][1].res = Nil
    /\ log["c1"][2].kind = "Search" /\ log["c1"][2].entries # << >>
    /\ log["c1"][3].site = "verify" /\ log["c1"][3].res = [kind |-> "ldap", code |-> 32]
    /\ ret["c1"].err = [kind |-> "ldap", code |-> 32]
    /\ ret["c1"].user = NoUser

\* The sessions caller c's Dial opened that are open.
OpenSessionsOf(c) == { id \in frame[c].opened : sessions[id].open }

\* C20 (as claimed): when Dial returns, at most one session it opened is
\* open, and after a success that one is the session the Server holds.
C20_OneSession ==
    \A c \in Callers :
        Returned(c, "Dial") =>
            /\ Cardinality(OpenSessionsOf(c)) <= 1
            /\ ret[c].err = Nil => OpenSessionsOf(c) = {Connection[serverOf[c]]}

\* C21 (as claimed): with the start-tls option set, Dial returns success
\* only holding a session that was connected in clear and then upgraded: the
\* last two steps of the call are the connect and the upgrade of that
\* session, both successful.
C21_StartTLSUpgraded ==
    \A c \in Callers :
        (Returned(c, "Dial") /\ ret[c].err = Nil /\ Config.StartTLS) =>
            LET conn == Connection[serverOf[c]]
                n == Len(log[c])
            IN  /\ conn # NilConn /\ sessions[conn].tls
                /\ n >= 2
                /\ log[c][n - 1].kind = "Dial" /\ log[c][n - 1].res = Nil
                /\ log[c][n - 1].conn = conn
                /\ log[c][n].kind = "StartTLS" /\ log[c][n].res = Nil
                /\ log[c][n].conn = conn

\* The errors of loading the certificates.
CertErrorKinds == {"readfile", "pem", "keypair"}

\* Caller c's Dial has returned an error of loading the certificates.
CertLoadFailed(c) ==
    Returned(c, "Dial") /\ ret[c].err.kind \in CertErrorKinds

\* C22: a Dial that fails to load a file of the root CA list or the client
\* key pair returns that error with no host contacted, and the step that
\* returns it leaves the connection of the Server, and the state of the
\* session it holds, as they were.
C22_CertificatesFirst ==
    /\ [](\A c \in Callers :
            CertLoadFailed(c) =>
                /\ log[c] = << >> /\ frame[c].opened = {}
                /\ ret[c].err.kind = "keypair" =>
                      Config.ClientCert # "" /\ Config.ClientKey # ""
                /\ ret[c].err.kind \in {"readfile", "pem"} =>
                      ret[c].err.code \in 1..Len(Split(Config.RootCACert, " ")))
    /\ [][\A c \in Callers :
            CertLoadFailed(c)' =>
                /\ Connection' = Connection
                /\ \A s \in Servers :
                      Connection[s] # NilConn =>
                          sessions'[Connection[s]] = sessions[Connection[s]]]_vars

\* C22, its cases: the Server holds an open session of an earlier Dial, and
\* a later Dial failed on the second file of the root CA list.
C22_Witness ==
    /\ CertLoadFailed("c1")
    /\ ret["c1"].err = [kind |-> "pem", code |-> 2]
    /\ Connection["s1"] # NilConn
    /\ sessions[Connection["s1"]].open

\* C23 (as claimed): every bind and search is issued on a session that is
\* open: none on a session Close has closed.
C23_NoUseAfterClose ==
    \A c \in Callers :
        \A k \in 1..Len(log[c]) :
            log[c][k].kind \in {"Bind", "UnauthenticatedBind", "Search"} =>
                sessions[log[c][k].conn].open

\* C24 (as claimed): Login returns ErrInvalidCredentials only if the
\* directory rejected, with "invalid credentials", a bind that carried the
\* password the caller supplied.
C24_OnlyUserRejection ==
    \A c \in Callers :
        (Returned(c, "Login") /\ ret[c].err = ErrInvalidCredentials) =>
            \E k \in SuppliedBinds(c) :
                log[c][k].res = [kind |-> "ldap", code |-> 49]

=============================================================================
